---- MODULE Spec2Model ----
(***************************************************************************)
(* Model of pastastore/plotting.py, class Plots: the time-series plots     *)
(* (oseries, stresses -> _timeseries) and the data-availability heatmap    *)
(* (data_availability -> _data_availability).                              *)
(*                                                                         *)
(* Every call is synchronous and runs to completion (or to the exception   *)
(* it raises), so one action is one call.  The state is the call's frame   *)
(* at the moment it returns or raises: its arguments, the exception raised *)
(* (fault), whether it returned an axes handle, and what it had created    *)
(* and drawn by then.  The frame is dropped (finish) before the next call. *)
(*                                                                         *)
(* Python lists and dicts are 0-based, the sequences below are 1-based:    *)
(* element k of a sequence is index k-1 of the Python object.              *)
(***************************************************************************)
EXTENDS Integers, Sequences, FiniteSets, TLC

VARIABLES call, names, fault, returned, figure, fetched, plotted,
          rows, intervals, bounds, labels, norm, pcBound,
          cbticks, cbticklabels, yticklabels,
          userdict,   \* the caller's intervals dict, as the call left it
          hist        \* cumulative_hist: what was counted and plotted

vars == <<call, names, fault, returned, figure, fetched, plotted,
          rows, intervals, bounds, labels, norm, pcBound,
          cbticks, cbticklabels, yticklabels, userdict, hist>>

----------------------------------------------------------------------------
(* Bounds of the model *)

\* longest explicit name list passed to data_availability
MaxNames == 2
\* number of series in the store's library, and longest name list of a
\* time-series plot
MaxTsNames == 22
\* longest caller-supplied intervals dict
MaxTableLen == 2
\* largest number of models whose statistic is plotted
MaxModels == 3
\* resolution of the time axis: the index unit is 1/TicksPerSecond second.
\* The code works in nanoseconds (factor 10**9, line 297); the factor is kept
\* as a multiplication but scaled down so that a year fits a 32-bit integer.
TicksPerSecond == 10

----------------------------------------------------------------------------
(* Program constants *)

\* _timeseries: "if len(names) > 20 and split"
MaxSubplots == 20

Max(a, b) == IF a >= b THEN a ELSE b

Reverse(s) == [k \in 1..Len(s) |-> s[Len(s) + 1 - k]]

SeqToSet(s) == {s[k] : k \in 1..Len(s)}

\* the sequences without repetition over S of length at most n
DistinctSeqs(S, n) ==
    UNION {{s \in [1..m -> S] : \A a, b \in 1..m : a # b => s[a] # s[b]}
           : m \in 0..n}

----------------------------------------------------------------------------
(* The store (external collaborator): a library of MaxTsNames series,      *)
(* named 1..MaxTsNames in index order.  An observation is a timestamp t    *)
(* (in ticks) and v = TRUE when the value is present, FALSE when it is NaN.*)
(* Series 1 has a missing value and a repeated and a decreasing timestamp, *)
(* series 2 is empty, series 3 has one observation, series 4 only missing  *)
(* values; series 5 is daily for 10 days, series 6 is daily with one gap   *)
(* of 20 days, series 7 has a gap of half an hour and one of 400 days; the *)
(* others are daily.                                                       *)

Second == 1
Minute == 60
Hour == 60 * 60
Day == 60 * 60 * 24

DayTicks == Day * TicksPerSecond

Obs(d, present) == [t |-> d * DayTicks, v |-> present]

\* the index of the library's metadata frame (pstore.oseries / .stresses)
StoreIndex == [k \in 1..MaxTsNames |-> k]

\* the "kind" column of pstore.stresses
StoreKind(n) == IF n % 2 = 1 THEN "prec" ELSE "evap"

\* the series stored under a name
StoreSeries(n) ==
    CASE n = 1 -> <<Obs(0, TRUE), Obs(1, FALSE), Obs(3, TRUE), Obs(3, TRUE),
                    Obs(2, TRUE)>>
      [] n = 2 -> << >>
      [] n = 3 -> <<Obs(5, TRUE)>>
      [] n = 4 -> <<Obs(0, FALSE), Obs(1, FALSE)>>
      [] n = 5 -> [k \in 1..10 |-> Obs(k - 1, TRUE)]
      [] n = 6 -> <<Obs(0, TRUE), Obs(1, TRUE), Obs(2, TRUE), Obs(22, TRUE),
                    Obs(23, TRUE)>>
      [] n = 7 -> <<Obs(0, TRUE),
                    [t |-> 30 * Minute * TicksPerSecond, v |-> TRUE],
                    Obs(1, TRUE), Obs(401, TRUE)>>
      [] OTHER -> <<Obs(0, TRUE), Obs(1, TRUE), Obs(2, TRUE)>>

\* conn._parse_names(names, libname): None means every name of the library
ParseNames(allNames, namesArg) == IF allNames THEN StoreIndex ELSE namesArg

\* stresses.loc[index.isin(names)].loc[kind == kind].index.to_list():
\* the names of that kind, in the order of the store's index
KindFilter(nms, kind) ==
    SelectSeq(StoreIndex,
              LAMBDA n : n \in SeqToSet(nms) /\ StoreKind(n) = kind)

\* names after the kind filter of stresses() and data_availability():
\* "if kind:" is false for None and for the empty string
FilterNames(libname, nms, kind) ==
    IF libname = "stresses" /\ kind # "" THEN KindFilter(nms, kind) ELSE nms

\* conn._get_series(libname, names, squeeze=False).values(): the fetched
\* series, in the order in which the store's mapping yields them
GetSeries(order) == [k \in 1..Len(order) |-> [name |-> order[k],
                                              data |-> StoreSeries(order[k])]]

\* the orders in which the store may yield the series fetched for nms
FetchOrders(nms) == {nms, Reverse(nms)}

----------------------------------------------------------------------------
(* _timeseries, lines 79-112 *)

TooManySubplotsEq(nms, split) == Len(nms) >= MaxSubplots /\ split

\* line 81
TooManySubplots(nms, split) == Len(nms) > MaxSubplots /\ split

\* plt.subplots(len(names), 1) / plt.subplots(1, 1) / ax: what "axes" is bound
\* to.  subplots squeezes a 1x1 grid to a single Axes; zero rows is an error
\* inside matplotlib.
AxesKind(nms, axGiven, split) ==
    IF axGiven THEN "single"
    ELSE IF ~split THEN "single"
    ELSE IF Len(nms) = 0 THEN "error"
    ELSE IF Len(nms) = 1 THEN "single"
    ELSE "array"

TsResult(f, fig, fet, n, ret) ==
    [fault |-> f, figure |-> fig, fetched |-> fet, plotted |-> n,
     returned |-> ret]

timeseriesLateCheck(nms, axGiven, split) ==
    IF TooManySubplots(nms, split)
    THEN TsResult("ValueError", ~axGiven, TRUE, 0, FALSE)
    ELSE TsResult("none", ~axGiven, TRUE, Len(nms), TRUE)

\* the body of _timeseries after names were parsed
timeseries(nms, axGiven, split) ==
    LET axes == AxesKind(nms, axGiven, split) IN
    IF TooManySubplots(nms, split)
    THEN \* line 82: raised before plt.subplots and _get_series
         TsResult("ValueError", FALSE, FALSE, 0, FALSE)
    ELSE IF axes = "error"
    THEN \* plt.subplots(0, 1)
         TsResult("MplError", FALSE, FALSE, 0, FALSE)
    ELSE IF split /\ ~axGiven /\ axes = "single" /\ Len(nms) > 0
    THEN \* line 99: axes[i] on a single Axes object
         TsResult("TypeError", TRUE, TRUE, 0, FALSE)
    ELSE IF axGiven
    THEN \* line 111: fig was never bound
         TsResult("UnboundLocalError", FALSE, TRUE, Len(nms), FALSE)
    ELSE TsResult("none", TRUE, TRUE, Len(nms), TRUE)

----------------------------------------------------------------------------
(* _data_availability, lines 280-329 *)

Entry(n, sec) == [name |-> n, seconds |-> sec]

\* lines 283-291.  A dict keeps insertion order: the table is the sequence
\* of its items.
DefaultIntervals ==
    <<Entry("second", Second),
      Entry("minute", Minute),
      Entry("hour", Hour),
      Entry("day", Day),
      Entry("week", Day * 7),
      Entry("14 days", Day * 14),
      Entry("month", Day * 31),
      Entry("quarter", Day * 31 * 4),
      Entry("year", Day * 366)>>

Keys(table) == [k \in 1..Len(table) |-> table[k].name]

\* "if i in intervals: intervals.pop(i)"
Pop(table, key) == SelectSeq(table, LAMBDA e : e.name # key)

PopIgnoredFirstOnly(table, ignore) ==
    IF Len(ignore) = 0 THEN table ELSE Pop(table, Head(ignore))

\* lines 292-294: for i in ignore
RECURSIVE PopIgnored(_, _)
PopIgnored(table, ignore) ==
    IF Len(ignore) = 0 THEN table
    ELSE PopIgnored(Pop(table, Head(ignore)), Tail(ignore))

\* lines 282-294: the ignore loop is inside "if intervals is None"
IntervalTable(useDefault, userTable, ignore) ==
    IF useDefault THEN PopIgnored(DefaultIntervals, ignore) ELSE userTable

BoundsSeconds(table) == [k \in 1..Len(table) |-> table[k].seconds]

DictAfterPopped(userTable, ignore) == PopIgnored(userTable, ignore)

\* the caller's dict after lines 282-294: pop is only applied to the dict
\* built at line 283, a dict passed in is read and never changed
DictAfter(userTable, ignore) == userTable

\* lines 296-297: np.array([intervals[i] for i in intervals]) * 10**9,
\* the durations in the unit of the index, in the order of the dict
Bounds(table) == [k \in 1..Len(table) |-> table[k].seconds * TicksPerSecond]

LabelsReversed(table) == Reverse(Keys(table))

\* line 298: intervals.keys()
Labels(table) == Keys(table)

StrictlyAscending(b) == \A k \in 1..(Len(b) - 1) : b[k] < b[k + 1]

\* what LogNorm / BoundaryNorm need of their limits to be a scale at all
WellFormed(b) == Len(b) >= 2 /\ StrictlyAscending(b) /\ b[1] > 0

NoNorm == [type |-> "none", boundaries |-> << >>]

\* lines 299-302: any normtype other than 'log' selects BoundaryNorm
Norm(normtype, b) ==
    [type |-> IF normtype = "log" THEN "log" ELSE "boundary",
     boundaries |-> b]

\* the exception raised while the norm is made.  bounds[0] of an empty array
\* is an IndexError (line 300); BoundaryNorm indexes boundaries[0] too, and
\* newer matplotlib refuses fewer than 2 boundaries (tolerant = FALSE) where
\* older matplotlib accepts one (tolerant = TRUE).
NormFault(normtype, b, tolerant) ==
    IF normtype = "log"
    THEN IF Len(b) = 0 THEN "IndexError" ELSE "none"
    ELSE IF Len(b) = 0 THEN "MplError"
    ELSE IF Len(b) < 2 /\ ~tolerant THEN "MplError"
    ELSE "none"

\* s.empty
Empty(s) == Len(s) = 0

\* s.dropna(): the observations whose value is present
DropNa(s) == SelectSeq(s, LAMBDA o : o.v)

RetainedKeepNa(s, dropna) == s

\* lines 308-309
Retained(s, dropna) == IF dropna THEN DropNa(s) ELSE s

\* s.index
Index(s) == [k \in 1..Len(s) |-> s[k].t]

\* np.diff(x): x[k+1] - x[k], one element fewer than x, empty for empty x
Diff(x) == [k \in 1..(Len(x) - 1) |-> x[k + 1] - x[k]]

\* the gaps handed to pcolormesh for one series
Gaps(s, dropna) == Diff(Index(Retained(s, dropna)))

\* the position of one gap on the color scale when the mesh is drawn.
\* LogNorm masks values <= 0; a value under vmin (above vmax) maps below 0
\* (above 1).  BoundaryNorm: the bucket i with b[i] <= g < b[i+1], under
\* below b[1], over from the last boundary on (BoundaryNorm assigns over
\* last, so over wins where both hold).
ColorOf(nrm, g) ==
    LET b == nrm.boundaries
        below == {k \in 1..Len(b) : b[k] <= g}
        bucket == IF below = {} THEN 0
                  ELSE CHOOSE k \in below : \A j \in below : j <= k
    IN  IF nrm.type = "log"
        THEN IF g <= 0 THEN [kind |-> "masked", bucket |-> 0]
             ELSE IF g < b[1] THEN [kind |-> "under", bucket |-> 0]
             ELSE IF g > b[Len(b)] THEN [kind |-> "over", bucket |-> 0]
             ELSE [kind |-> "in", bucket |-> bucket]
        ELSE IF g >= b[Len(b)] THEN [kind |-> "over", bucket |-> 0]
             ELSE IF g < b[1] THEN [kind |-> "under", bucket |-> 0]
             ELSE [kind |-> "in", bucket |-> bucket]

\* the color a gap is drawn in.  The colormap has 256 entries (line 303); an
\* entry is named by the scale position it belongs to, given as the duration
\* that maps onto it.  A BoundaryNorm bucket takes the entry of its lower
\* boundary; LogNorm takes the entry of the value itself.  Line 304 sets the
\* over color (white) only: the under color stays matplotlib's default, the
\* first entry of the map, which is the entry of boundaries[0].
Rgba(nrm, g) ==
    LET c == ColorOf(nrm, g)
        b == nrm.boundaries
    IN  IF c.kind = "masked" THEN [slot |-> "bad", at |-> 0]
        ELSE IF c.kind = "over" THEN [slot |-> "over", at |-> 0]
        ELSE IF c.kind = "under" THEN [slot |-> "lut", at |-> b[1]]
        ELSE IF nrm.type = "log" THEN [slot |-> "lut", at |-> g]
        ELSE [slot |-> "lut", at |-> b[c.bucket]]

\* one iteration of the loop of line 306 that does not raise: the row of
\* series s (empty series: nothing is drawn on the row)
Row(s, dropna, nrm) ==
    LET g == IF Empty(s.data) THEN << >> ELSE Gaps(s.data, dropna) IN
    [name |-> s.name,
     drawn |-> ~Empty(s.data),
     start |-> IF Empty(s.data) THEN << >>
               ELSE Index(Retained(s.data, dropna)),
     gaps |-> g,
     colors |-> [k \in 1..Len(g) |-> ColorOf(nrm, g[k])]]

\* pcolormesh(X, [i, i+1], C) with an X of length 0 raises inside matplotlib
\* (C has 0 columns where X would need -1)
MeshFault(s, dropna) == ~Empty(s.data) /\ Len(Retained(s.data, dropna)) = 0

\* lines 306-313: the rows drawn until the loop ends or a pcolormesh raises
RECURSIVE DrawRows(_, _, _, _)
DrawRows(series, dropna, nrm, acc) ==
    IF Len(series) = 0 THEN acc
    ELSE LET s == Head(series) IN
         IF MeshFault(s, dropna)
         THEN [acc EXCEPT !.fault = "MplError"]
         ELSE DrawRows(Tail(series), dropna, nrm,
                       [rows |-> Append(acc.rows, Row(s, dropna, nrm)),
                        pc |-> acc.pc \/ ~Empty(s.data),
                        fault |-> "none"])

DaResult(f, tab, b, l, nrm, rws, pc, cbt, cbl, ytl) ==
    [fault |-> f, intervals |-> tab, bounds |-> b, labels |-> l, norm |-> nrm,
     rows |-> rws, pc |-> pc, cbticks |-> cbt, cbticklabels |-> cbl,
     yticklabels |-> ytl]

\* the static method _data_availability.  series: the fetched series in the
\* order received; nms: the names used as row labels; tolerant: whether the
\* installed matplotlib accepts limits that are not a proper scale.
da(series, nms, useDefault, userTable, ignore, normtype, dropna, set_yticks, tolerant) ==
    LET tab == IntervalTable(useDefault, userTable, ignore)
        b == Bounds(tab)
        l == Labels(tab)
        nf == NormFault(normtype, b, tolerant)
        nrm == Norm(normtype, b)
        loop == DrawRows(series, dropna, nrm,
                         [rows |-> << >>, pc |-> FALSE, fault |-> "none"])
    IN  IF nf # "none"
        THEN DaResult(nf, tab, b, l, NoNorm, << >>, FALSE, << >>, << >>, << >>)
        ELSE IF loop.fault # "none"
        THEN DaResult(loop.fault, tab, b, l, nrm, loop.rows, loop.pc,
                      << >>, << >>, << >>)
        ELSE IF ~loop.pc
        THEN \* line 316: pc was never bound
             DaResult("UnboundLocalError", tab, b, l, nrm, loop.rows, FALSE,
                      << >>, << >>, << >>)
        ELSE IF ~WellFormed(b) /\ ~tolerant
        THEN \* f.colorbar on a norm whose limits are not a scale
             DaResult("MplError", tab, b, l, nrm, loop.rows, TRUE,
                      << >>, << >>, << >>)
        ELSE DaResult("none", tab, b, l, nrm, loop.rows, TRUE, b, l,
                      IF set_yticks THEN nms ELSE << >>)

----------------------------------------------------------------------------
(* cumulative_hist, lines 363-411 *)

\* lines 374-396: len(statsdf) after the optional dummy value was appended;
\* the 'aic'/'bic' branch appends nothing
StatsLen(statistic, extend, n) ==
    IF statistic = "evp" THEN (IF extend THEN n + 1 ELSE n)
    ELSE IF statistic \in {"rsq", "nse", "kge_2012"}
    THEN (IF extend THEN n + 1 ELSE n)
    ELSE IF statistic \in {"aic", "bic"} THEN n
    ELSE (IF extend THEN n + 1 ELSE n)

\* lines 398-402: the number shown in the label 'No. Models = ...'
LabelCount(extend, len) == IF extend THEN len - 1 ELSE len

\* the call with n models in the frame returned by get_statistics
cumulative_hist_result(statistic, extend, labelGiven, n) ==
    LET len == StatsLen(statistic, extend, n) IN
    [statistic |-> statistic, extend |-> extend, labelGiven |-> labelGiven,
     models |-> n, bins |-> len,
     count |-> IF labelGiven THEN 0 ELSE LabelCount(extend, len)]

NoHist == [statistic |-> "", extend |-> FALSE, labelGiven |-> FALSE,
           models |-> 0, bins |-> 0, count |-> 0]

----------------------------------------------------------------------------
(* Inputs of the calls *)

\* statistic names: one of each branch of lines 374-396
Statistics == {"evp", "rsq", "nse", "kge_2012", "aic", "bic", "rmse"}


\* the names a data-availability call may list explicitly
DaNames == 1..4

\* name lists of the regular series 5, 6 and 7
RegularLists == {<<5>>, <<6>>, <<7>>, <<5, 6>>}

\* the intervals arguments of a caller that holds the dict d
HeldIntervalsArgs(d) ==
    {[useDefault |-> TRUE, table |-> << >>, ignore |-> ig] : ig \in {<< >>, <<"week", "decade">>}}
    \cup {[useDefault |-> FALSE, table |-> d, ignore |-> ig] :
             ig \in {<< >>, <<"week", "decade">>}}

DaNameLists == DistinctSeqs(DaNames, MaxNames) \cup RegularLists

\* explicit name lists of a time-series plot: the first n names of the store
TsNameLists == {[k \in 1..n |-> k] : n \in 0..MaxTsNames}

Kinds == {"", "prec"}

IntervalPool == {Entry("hour", Hour), Entry("day", Day), Entry("week", Day * 7)}

\* caller-supplied intervals dicts: distinct names, distinct positive
\* durations, any insertion order
UserTables == DistinctSeqs(IntervalPool, MaxTableLen)

DefaultIgnore == <<"second", "minute", "14 days">>

\* ignore tuples tried with a caller-supplied dict
UserIgnorePool == {<< >>, <<"week", "decade">>}

\* ignore tuples tried with the default table
IgnorePool ==
    {DefaultIgnore,
     << >>,
     <<"second", "minute">>,
     <<"week", "decade">>,
     <<"second", "minute", "hour", "day", "week", "14 days", "month",
       "quarter">>,
     <<"second", "minute", "hour", "day", "week", "14 days", "month",
       "quarter", "year">>}

Normtypes == {"log", "discrete", "Log"}

\* matplotlib versions differ only on limits that are not a proper scale
Tolerances(tb) ==
    IF WellFormed(Bounds(IntervalTable(tb.useDefault, tb.table, tb.ignore)))
    THEN {TRUE} ELSE BOOLEAN

\* the names argument: None (all = TRUE) or an explicit list
NamesArgs(lists) ==
    {[all |-> TRUE, list |-> << >>]} \cup {[all |-> FALSE, list |-> l] : l \in lists}

TsNamesArgs == NamesArgs(TsNameLists)

DaNamesArgs == NamesArgs(DaNameLists)

\* the name lists of a caller that keeps one intervals dict over several
\* renders
HeldNamesArgs == {[all |-> FALSE, list |-> l] : l \in RegularLists}

\* libname and kind of a data-availability call: kind is only used for the
\* stresses library
Libraries ==
    {[libname |-> "oseries", kind |-> ""]}
    \cup {[libname |-> "stresses", kind |-> k] : k \in Kinds}

\* the intervals and ignore arguments: intervals=None (useDefault) or a dict
IntervalsArgs ==
    {[useDefault |-> TRUE, table |-> << >>, ignore |-> ig] : ig \in IgnorePool}
    \cup {[useDefault |-> FALSE, table |-> t, ignore |-> ig] :
             t \in UserTables, ig \in UserIgnorePool}

Call(op, libname, allNames, namesArg, kind, axGiven, split, useDefault,
     userTable, ignore, normtype, dropna, set_yticks, order) ==
    [op |-> op, libname |-> libname, allNames |-> allNames,
     namesArg |-> namesArg, kind |-> kind, axGiven |-> axGiven,
     split |-> split, useDefault |-> useDefault, userTable |-> userTable,
     ignore |-> ignore, normtype |-> normtype, dropna |-> dropna,
     set_yticks |-> set_yticks, order |-> order]

NoCall == Call("none", "", FALSE, << >>, "", FALSE, FALSE, TRUE, << >>,
               << >>, "", FALSE, FALSE, << >>)

----------------------------------------------------------------------------
(* State machine *)

\* no call has been made
InitFrame ==
    /\ call = NoCall
    /\ names = << >>
    /\ fault = "none"
    /\ returned = FALSE
    /\ figure = FALSE
    /\ fetched = FALSE
    /\ plotted = 0
    /\ rows = << >>
    /\ intervals = << >>
    /\ bounds = << >>
    /\ labels = << >>
    /\ norm = NoNorm
    /\ pcBound = FALSE
    /\ cbticks = << >>
    /\ cbticklabels = << >>
    /\ yticklabels = << >>
    /\ hist = NoHist

Init == InitFrame /\ userdict = << >>

\* what a time-series plot leaves of the heatmap's state: nothing
NoHeatmap ==
    /\ rows' = << >>
    /\ intervals' = << >>
    /\ bounds' = << >>
    /\ labels' = << >>
    /\ norm' = NoNorm
    /\ pcBound' = FALSE
    /\ cbticks' = << >>
    /\ cbticklabels' = << >>
    /\ yticklabels' = << >>

\* a call of _timeseries(libname, names=nms, ax, split)
TimeseriesCall(c, nms) ==
    LET r == timeseries(nms, c.axGiven, c.split) IN
    /\ call' = c
    /\ names' = nms
    /\ fault' = r.fault
    /\ returned' = r.returned
    /\ figure' = r.figure
    /\ fetched' = r.fetched
    /\ plotted' = r.plotted
    /\ NoHeatmap
    /\ UNCHANGED <<userdict, hist>>

\* Plots.oseries, lines 137-138
oseries ==
    /\ call.op = "none"
    /\ \E nm \in TsNamesArgs, axGiven \in BOOLEAN, split \in BOOLEAN :
          TimeseriesCall(
               Call("oseries", "oseries", nm.all, nm.list, "", axGiven,
                    split, TRUE, << >>, << >>, "", FALSE, FALSE, << >>),
               ParseNames(nm.all, nm.list))

\* Plots.stresses, lines 166-175
stresses ==
    /\ call.op = "none"
    /\ \E nm \in TsNamesArgs, kind \in Kinds, axGiven \in BOOLEAN,
          split \in BOOLEAN :
          TimeseriesCall(
               Call("stresses", "stresses", nm.all, nm.list, kind, axGiven,
                    split, TRUE, << >>, << >>, "", FALSE, FALSE, << >>),
               FilterNames("stresses", ParseNames(nm.all, nm.list), kind))

\* a call of data_availability with the given arguments
Render(lib, nm, tb, normtype, dropna, set_yticks) ==
        \E tolerant \in Tolerances(tb) :
          LET nms == FilterNames(lib.libname, ParseNames(nm.all, nm.list),
                                 lib.kind)
          IN  \E order \in FetchOrders(nms) :
                 LET r == da(GetSeries(order), nms, tb.useDefault, tb.table,
                             tb.ignore, normtype, dropna, set_yticks, tolerant)
                 IN  /\ call' = Call("data_availability", lib.libname, nm.all,
                                     nm.list, lib.kind, FALSE, FALSE,
                                     tb.useDefault, tb.table, tb.ignore,
                                     normtype, dropna, set_yticks, order)
                     /\ names' = nms
                     /\ fault' = r.fault
                     /\ returned' = (r.fault = "none")
                     /\ figure' = TRUE
                     /\ fetched' = TRUE
                     /\ plotted' = 0
                     /\ rows' = r.rows
                     /\ intervals' = r.intervals
                     /\ bounds' = r.bounds
                     /\ labels' = r.labels
                     /\ norm' = r.norm
                     /\ pcBound' = r.pc
                     /\ cbticks' = r.cbticks
                     /\ cbticklabels' = r.cbticklabels
                     /\ yticklabels' = r.yticklabels
                     /\ userdict' = IF tb.useDefault THEN userdict
                                    ELSE DictAfter(tb.table, tb.ignore)
                     /\ hist' = NoHist

\* Plots.data_availability, lines 219-235
data_availability ==
    /\ call.op = "none"
    /\ \E lib \in Libraries, nm \in DaNamesArgs, tb \in IntervalsArgs,
          normtype \in Normtypes, dropna \in BOOLEAN, set_yticks \in BOOLEAN :
          Render(lib, nm, tb, normtype, dropna, set_yticks)

\* Plots.cumulative_hist, lines 363-411
cumulative_hist ==
    /\ call.op = "none"
    /\ \E statistic \in Statistics, extend \in BOOLEAN, axGiven \in BOOLEAN,
          labelGiven \in BOOLEAN, n \in 1..MaxModels :
          /\ call' = Call("cumulative_hist", "", TRUE, << >>, "", axGiven,
                          FALSE, TRUE, << >>, << >>, "", FALSE, FALSE, << >>)
          /\ hist' = cumulative_hist_result(statistic, extend, labelGiven, n)
          /\ names' = << >>
          /\ fault' = "none"
          /\ returned' = TRUE
          /\ figure' = ~axGiven
          /\ fetched' = TRUE
          /\ plotted' = 0
          /\ NoHeatmap
          /\ UNCHANGED userdict

\* the locals of the call are discarded
DropFrame ==
    /\ call' = NoCall
    /\ names' = << >>
    /\ fault' = "none"
    /\ returned' = FALSE
    /\ figure' = FALSE
    /\ fetched' = FALSE
    /\ plotted' = 0
    /\ hist' = NoHist
    /\ NoHeatmap

\* the call has returned or raised: its locals are discarded, and so are the
\* objects the caller made for it
finish ==
    /\ call.op # "none"
    /\ DropFrame
    /\ userdict' = << >>

Next == oseries \/ stresses \/ data_availability \/ cumulative_hist \/ finish

Spec == Init /\ [][Next]_vars

----------------------------------------------------------------------------
(* A caller that builds one intervals dict and keeps it over a sequence of   *)
(* data-availability renders, with the default table or with its dict       *)

InitHeld == InitFrame /\ userdict \in UserTables

\* a render by the caller that holds userdict
render ==
    /\ call.op = "none"
    /\ \E nm \in HeldNamesArgs, tb \in HeldIntervalsArgs(userdict),
          normtype \in Normtypes, dropna \in BOOLEAN, set_yticks \in BOOLEAN :
          Render([libname |-> "oseries", kind |-> ""], nm, tb, normtype,
                 dropna, set_yticks)

\* the render has returned or raised; the caller keeps its dict
release ==
    /\ call.op # "none"
    /\ DropFrame
    /\ UNCHANGED userdict

NextHeld == render \/ release

SpecHeld == InitHeld /\ [][NextHeld]_vars

----------------------------------------------------------------------------
(* Properties *)

InDa == call.op = "data_availability"

InTs == call.op \in {"oseries", "stresses"}

\* the series the store handed over, in the order received
Fetched == [k \in 1..Len(call.order) |-> StoreSeries(call.order[k])]

\* the positions of the observations of s that are retained
Kept(s, dropna) == {k \in 1..Len(s) : ~dropna \/ s[k].v}

\* the position in s of the j-th retained observation
NthKept(s, dropna, j) ==
    CHOOSE k \in Kept(s, dropna) :
        Cardinality({m \in Kept(s, dropna) : m <= k}) = j

\* C1: in a completed data-availability render, row i shows the series of
\* the i-th name and the i-th row label, when row labels are set, is that
\* name, whatever the order in which the store returned the series.
C1_RowOrdering ==
    (InDa /\ returned) =>
        /\ Len(rows) = Len(names)
        /\ \A i \in 1..Len(rows) : rows[i].name = names[i]
        /\ \A i \in 1..Len(yticklabels) : yticklabels[i] = names[i]

\* C2: no name of the ignore tuple is among the labels (and so among the
\* entries that give the boundaries) of a completed data-availability
\* render, for the default table and for a caller-supplied one.
C2_IgnoredRemoved ==
    (InDa /\ returned) =>
        \A n \in SeqToSet(call.ignore) :
            /\ n \notin SeqToSet(labels)
            /\ n \notin SeqToSet(cbticklabels)
            /\ n \notin SeqToSet(Keys(intervals))

\* C3: the boundary array a data-availability render has made its norm from
\* is strictly ascending, its first element (when there is one) is positive, and it is as
\* long as the label sequence.
C3_BoundaryMonotonic ==
    (InDa /\ norm.type # "none") =>
        /\ \A k \in 1..(Len(bounds) - 1) : bounds[k] < bounds[k + 1]
        /\ Len(bounds) > 0 => bounds[1] > 0
        /\ Len(bounds) = Len(labels)

\* C4: a data-availability render whose table is left with fewer than 2
\* entries ends in a fault, returns no axes and has drawn no row.
C4_TooFewBoundariesRejected ==
    (InDa /\ Len(intervals) < 2) =>
        /\ fault # "none"
        /\ ~returned
        /\ Len(rows) = 0

\* C5: a data-availability render with a normtype that is neither the
\* logarithmic nor the discrete mode ends in a fault and is given neither
\* of the two norms.
C5_UnknownModeRejected ==
    (InDa /\ call.normtype \notin {"log", "discrete"}) =>
        /\ fault # "none"
        /\ ~returned
        /\ norm.type = "none"

\* C6: a logarithmic data-availability render of a series with a
\* non-positive gap ends in a fault, and no row is drawn from a non-positive
\* gap or has such a gap masked.
C6_NonPositiveGapFaults ==
    (InDa /\ call.normtype = "log") =>
        /\ (\E k \in 1..Len(Fetched) :
              LET s == Fetched[k] IN
              \E j \in 1..(Cardinality(Kept(s, call.dropna)) - 1) :
                  s[NthKept(s, call.dropna, j + 1)].t
                      <= s[NthKept(s, call.dropna, j)].t)
           => (fault # "none" /\ ~returned)
        /\ \A i \in 1..Len(rows) : \A k \in 1..Len(rows[i].gaps) :
              /\ rows[i].gaps[k] > 0
              /\ rows[i].colors[k].kind # "masked"

C8_RejectedBeforeWork ==
    (InTs /\ fault = "ValueError") =>
        /\ ~figure
        /\ ~fetched
        /\ plotted = 0
        /\ ~returned

C8_Witness ==
    /\ InTs
    /\ fault = "ValueError"
    /\ ~call.axGiven
    /\ ~figure
    /\ ~fetched

\* C9: every row of a data-availability render is made from exactly
\* max(n-1, 0) gaps, n being the number of retained observations of its series
\* (all of them without dropna, the non-missing ones with dropna), and gap j
\* is the difference of the (j+1)-th and the j-th retained timestamp.
C9_GapCount ==
    InDa =>
        \A i \in 1..Len(rows) :
            LET s == StoreSeries(rows[i].name)
                n == Cardinality(Kept(s, call.dropna))
                g == rows[i].gaps
            IN  /\ Len(g) = Max(n - 1, 0)
                /\ Len(rows[i].colors) = Len(g)
                /\ \A j \in 1..Len(g) :
                      g[j] = s[NthKept(s, call.dropna, j + 1)].t
                             - s[NthKept(s, call.dropna, j)].t

\* series 1 with dropna: its first gap spans the missing value at day 1
C9_Witness ==
    /\ InDa
    /\ call.dropna
    /\ \E i \in 1..Len(rows) :
          /\ rows[i].name = 1
          /\ rows[i].drawn
          /\ Len(rows[i].gaps) = 3
          /\ rows[i].gaps[1] = 3 * DayTicks

\* C10: a data-availability render over one or more series that all have at
\* most one retained observation, with a proper boundary array, completes
\* without a fault, returns the axes and draws no segment.
C10_BlankRowsComplete ==
    (/\ InDa
     /\ WellFormed(bounds)
     /\ Len(Fetched) > 0
     /\ \A k \in 1..Len(Fetched) :
           Cardinality(Kept(Fetched[k], call.dropna)) <= 1) =>
        /\ fault = "none"
        /\ returned
        /\ \A i \in 1..Len(rows) : Len(rows[i].gaps) = 0

\* the gaps drawn with a BoundaryNorm, each with the color it got
DiscreteCells ==
    IF norm.type # "boundary" THEN {}
    ELSE UNION {{[g |-> rows[i].gaps[k], c |-> rows[i].colors[k]] :
                    k \in 1..Len(rows[i].gaps)} : i \in 1..Len(rows)}

\* C11: in a completed data-availability render with the discrete norm, a
\* gap g with boundaries[i] <= g < boundaries[i+1] is in bucket i, a gap below
\* the first boundary is under and a gap from the last boundary on is over.
C11_DiscreteBuckets ==
    (InDa /\ returned) =>
        \A cell \in DiscreteCells :
            /\ \A i \in 1..(Len(bounds) - 1) :
                  (bounds[i] <= cell.g /\ cell.g < bounds[i + 1])
                      => (cell.c.kind = "in" /\ cell.c.bucket = i)
            /\ cell.g < bounds[1] => cell.c.kind = "under"
            /\ cell.g >= bounds[Len(bounds)] => cell.c.kind = "over"

\* the label of the bucket a drawn gap is in ("" for a gap off the scale)
BucketLabel(c) == IF c.kind = "in" THEN labels[c.bucket] ELSE ""

\* the rows of series n in a completed render with the default table, the
\* discrete norm and nothing ignored
ReferenceRows(n) ==
    {i \in 1..Len(rows) :
        /\ InDa /\ returned
        /\ call.useDefault /\ Len(call.ignore) = 0
        /\ call.normtype = "discrete"
        /\ rows[i].name = n}

\* C12 as stated: with the default table, the discrete norm and nothing
\* ignored, the 10 daily timestamps of series 5 give 9 segments in the 'day'
\* bucket, and the 20-day gap of series 6 is in the 'week' bucket.
C12_TwentyDaysIsWeek ==
    /\ \A i \in ReferenceRows(5) :
          /\ Len(rows[i].gaps) = 9
          /\ \A k \in 1..9 : BucketLabel(rows[i].colors[k]) = "day"
    /\ \A i \in ReferenceRows(6) :
          \A k \in 1..Len(rows[i].gaps) :
              rows[i].gaps[k] = 20 * DayTicks
                  => BucketLabel(rows[i].colors[k]) = "week"

\* C12 as amended: with the default table, the discrete norm and nothing
\* ignored, the 10 daily timestamps of series 5 give 9 segments in the 'day'
\* bucket, and the 20-day gap of series 6 is in the '14 days' bucket, the
\* other gaps of series 6 being in the 'day' bucket.
C12_TwentyDaysIsFortnight ==
    /\ \A i \in ReferenceRows(5) :
          /\ Len(rows[i].gaps) = 9
          /\ \A k \in 1..9 : BucketLabel(rows[i].colors[k]) = "day"
    /\ \A i \in ReferenceRows(6) :
          /\ Len(rows[i].gaps) = 4
          /\ \A k \in 1..Len(rows[i].gaps) :
                BucketLabel(rows[i].colors[k])
                    = IF rows[i].gaps[k] = 20 * DayTicks THEN "14 days"
                      ELSE "day"

C12_Witness ==
    /\ ReferenceRows(5) # {}
    /\ \E i \in ReferenceRows(6) :
          \E k \in 1..Len(rows[i].gaps) : rows[i].gaps[k] = 20 * DayTicks

\* C13: in a completed data-availability render the colorbar ticks are the
\* boundary array of the norm, there are as many tick labels as ticks, and
\* the k-th tick label is the name of the k-th entry of the interval table,
\* whose duration is the k-th tick.
C13_ColorbarTicks ==
    (InDa /\ returned) =>
        /\ cbticks = norm.boundaries
        /\ Len(cbticklabels) = Len(cbticks)
        /\ Len(cbticks) = Len(intervals)
        /\ \A k \in 1..Len(cbticks) :
              /\ cbticks[k] = intervals[k].seconds * TicksPerSecond
              /\ cbticklabels[k] = intervals[k].name

\* the default call: ticks hour .. year
C13_Witness ==
    /\ InDa
    /\ returned
    /\ call.useDefault
    /\ call.ignore = DefaultIgnore
    /\ cbticklabels = <<"hour", "day", "week", "month", "quarter", "year">>
    /\ cbticks[1] = Hour * TicksPerSecond

\* the colors of the scale itself: those of the values that are on it
ScaleColors ==
    {Rgba(norm, bounds[k]) :
        k \in {j \in 1..Len(bounds) : ColorOf(norm, bounds[j]).kind = "in"}}

\* C14: in a completed data-availability render with a proper boundary
\* array, a gap that is under or over the scale is drawn in a color that no
\* value on the scale has.
C14_ExtendsDistinct ==
    (InDa /\ returned /\ WellFormed(bounds)) =>
        \A i \in 1..Len(rows) : \A k \in 1..Len(rows[i].gaps) :
            rows[i].colors[k].kind \in {"under", "over"}
                => Rgba(norm, rows[i].gaps[k]) \notin ScaleColors

\* the entries of the default table whose name is not in the ignore tuple
Remaining(ignore) ==
    SelectSeq(DefaultIntervals, LAMBDA e : e.name \notin SeqToSet(ignore))

\* C15: the table of a data-availability render with the default intervals
\* is the default table without the entries named in ignore, in the original
\* order; names that are not in the table change nothing; removing the same
\* names again changes nothing; ignore = (second, minute) leaves hour .. year.
C15_Removal ==
    (InDa /\ call.useDefault) =>
        /\ intervals = Remaining(call.ignore)
        /\ labels = Keys(Remaining(call.ignore))
        /\ PopIgnored(intervals, call.ignore) = intervals
        /\ call.ignore = <<"week", "decade">>
              => Len(intervals) = Len(DefaultIntervals) - 1
        /\ call.ignore = <<"second", "minute">>
              => labels = <<"hour", "day", "week", "14 days", "month",
                            "quarter", "year">>

C15_Witness ==
    /\ InDa
    /\ call.useDefault
    /\ call.ignore = <<"second", "minute">>
    /\ Keys(intervals) = <<"hour", "day", "week", "14 days", "month",
                           "quarter", "year">>

\* C16: no render changes the intervals dict of its caller, and every render
\* with the default intervals, whatever renders came before it, works on the
\* default table less its own ignored names: all nine entries when nothing
\* is ignored.
C16_NoPersistentState ==
    /\ [][userdict' = userdict]_vars
    /\ []((InDa /\ ~call.useDefault) => userdict = call.userTable)
    /\ []((InDa /\ call.useDefault) =>
            /\ intervals = Remaining(call.ignore)
            /\ Len(call.ignore) = 0 => Len(intervals) = 9)

\* a render with the caller's dict holding 'week' while 'week' is ignored
C16_Witness ==
    /\ InDa
    /\ ~call.useDefault
    /\ "week" \in SeqToSet(call.ignore)
    /\ "week" \in SeqToSet(Keys(call.userTable))
    /\ userdict = call.userTable

InHist == call.op = "cumulative_hist"

\* C17: when no label is passed, the number in the label of cumulative_hist
\* is the number of models whose statistic is plotted, for every statistic
\* and with or without extend.
C17_LabelCountsModels ==
    (InHist /\ ~hist.labelGiven) => hist.count = hist.models

\* C18: a time-series plot of 1 to 20 names, or of any number of names
\* without split, on new or on given axes, plots every series and returns the
\* axes without a fault.
C18_TimeseriesCompletes ==
    (InTs /\ Len(names) >= 1 /\ (~call.split \/ Len(names) <= 20)) =>
        /\ fault = "none"
        /\ returned
        /\ plotted = Len(names)

====
